---- MODULE Spec2Model ----
(***************************************************************************)
(* dynqueue: a Rayon UnindexedProducer over a queue that the consumer can  *)
(* extend, through a DynQueueHandle, while the queue is being iterated.    *)
(*                                                                         *)
(* One QueueCore (Arc<DynQueueInner>) belongs to each Producer (DynQueue). *)
(* Core i is the core of Producer i; both are created by into_dyn_queue,   *)
(* at construction or inside split.                                        *)
(***************************************************************************)
EXTENDS Integers, Sequences, FiniteSets, Bags, TLC

\* ------------------------------------------------------------- bounds
MaxInit == 3
MaxProducers == 2
MaxLimit == 2
MaxSize == 4
MaxOps == 3

Cores == 1..MaxProducers
Kinds == {"Vec", "VecDeque", "SegQueue"}
Policies == {"sync", "leak", "thread"}
Rules == {"doc", "test"}

\* The initial items: 1 makes neither callback enqueue, 2 makes both.
InputItems == {1, 2}

\* All sequences over S of length at most n.
SeqsUpTo(S, n) == UNION {[1..k -> S] : k \in 0..n}

\* The bag of the elements of a sequence.
SeqToBag(s) ==
    [x \in {s[i] : i \in DOMAIN s} |-> Cardinality({i \in DOMAIN s : s[i] = x})]

Min(a, b) == IF a <= b THEN a ELSE b

VARIABLES
    kind,          \* the backing queue U of every core
    policy,        \* what the consumer code does with a delivered handle
    rule,          \* the callback's enqueue rule
    never_full,    \* the folder never reports full
    limit,         \* otherwise: full() once this many items were consumed
    input,         \* the initial items, as given to into_dyn_queue
    ncores,        \* cores created so far
    queue,         \* queue[c]: the contents of core c's queue (front first)
    strong_count,  \* strong_count[c]: Arc::strong_count of core c
    pc,            \* pc[p]: where Producer p is
    cur,           \* cur[p]: the item of the consume step in progress
    todo,          \* todo[p]: what the running callback still enqueues
    delivered,     \* delivered[p]: the items p's folder has consumed
    enqueued,      \* bag of all items pushed through a handle
    STALE_HANDLE,  \* the global slot of the doc example: 0 (None) or a core
    threads,       \* bag of handles held by concurrently running threads
    size,          \* the argument of a direct Queue::split_off call
    lock,          \* lock[c]: the RwLock around core c's Vec or VecDeque
    call,          \* call[t]: the Queue method thread t is inside of
    popped,        \* bag of the items that direct pop calls returned
    moved,         \* bag of the items in queues that split_off returned
    nops           \* direct Queue calls begun so far

vars == <<kind, policy, rule, never_full, limit, input, ncores, queue,
          strong_count, pc, cur, todo, delivered, enqueued, STALE_HANDLE,
          threads, size, lock, call, popped, moved, nops>>

\* What the operations of a DynQueue never change.
params == <<kind, policy, rule, never_full, limit, input, size,
            call, popped, moved, nops>>

\* The threads that call Queue methods directly.
Callers == {1, 2}

\* The item they push.
PushItem == 3

Idle == [op |-> "idle", left |-> 0, item |-> 0, out |-> <<>>]

\* --------------------------------------------------- consumer callbacks

\* The crate doc example: enqueue 4 on seeing 2.
doc_rule(v) == IF v = 2 THEN <<4>> ELSE <<>>

\* A callback whose tests exclude each other: at most one 11 per item.
handle_queue_else_if(v) ==
    IF v % 2 = 0 THEN <<11>>
    ELSE IF v % 3 = 0 THEN <<11>>
    ELSE IF v = 11 THEN <<5, 17>>
    ELSE <<>>

\* tests.rs handle_queue: the enqueue calls it makes for v, in order.
handle_queue(v) ==
    (IF v % 2 = 0 THEN <<11>> ELSE <<>>) \o
    (IF v % 3 = 0 THEN <<11>> ELSE <<>>) \o
    (IF v % 4 = 0 THEN <<11>> ELSE <<>>) \o
    (IF v = 11 THEN <<5, 17>> ELSE <<>>)

Calls(r, v) == IF r = "doc" THEN doc_rule(v) ELSE handle_queue(v)

\* ------------------------------------------------------ Queue<T> impls

\* A push that loses the item.
push_lossy(k, q, v) == q

\* Queue::push: Vec::push, VecDeque::push_back, SegQueue::push.
push(k, q, v) == Append(q, v)

\* A pop that hands out the front item of every kind of queue.
pop_item_front(k, q) == Head(q)

\* Queue::pop, the item: Vec::pop takes the last element, VecDeque::pop_front
\* and SegQueue::pop the first.  Only used on a non-empty q.
pop_item(k, q) == IF k = "Vec" THEN q[Len(q)] ELSE Head(q)

\* A pop that returns the item and leaves it in the queue.
pop_rest_keeps(k, q) == q

\* Queue::pop, what stays in the queue.
pop_rest(k, q) == IF k = "Vec" THEN SubSeq(q, 1, Len(q) - 1) ELSE Tail(q)

\* Queue::len.
len(q) == Len(q)

\* Queue::split_off(n) faults: Vec::split_off and VecDeque::split_off panic
\* when n > len; the SegQueue loop never does.
split_off_faults(k, q, n) == k # "SegQueue" /\ n > Len(q)

\* Queue::split_off(n), the returned queue.  Vec and VecDeque: std's
\* split_off(at) returns the elements [at, len).  SegQueue: up to n pops,
\* each pushed to the new queue.
split_off_new(k, q, n) ==
    IF k = "SegQueue"
    THEN SubSeq(q, 1, Min(n, Len(q)))
    ELSE SubSeq(q, n + 1, Len(q))

\* Queue::split_off(n), what stays in self.  Vec and VecDeque keep [0, at).
split_off_rest(k, q, n) ==
    IF k = "SegQueue"
    THEN SubSeq(q, Min(n, Len(q)) + 1, Len(q))
    ELSE SubSeq(q, 1, n)

\* ------------------------------------------------------------ Producer

\* folder.full(), for a folder that has consumed the items d.
full(d) == ~never_full /\ Len(d) >= limit

\* A loop that never consults the folder.
should_break_never(d) == FALSE

\* A loop that breaks one item late.
should_break_late(d) == ~never_full /\ Len(d) > limit

\* if folder.full() { break }.
should_break(d) == full(d)

\* An assertion that expects no reference at all.
sole_reference_zero(c) == strong_count[c] = 0

\* An assertion that any live count satisfies.
sole_reference_any(c) == strong_count[c] >= 1

\* The assertion of fold_with's empty branch.
sole_reference(c) == strong_count[c] = 1

\* A Handle built without taking a reference.
handle_no_clone(c) == strong_count

\* A Handle that takes two references.
handle_clone_twice(c) == [strong_count EXCEPT ![c] = @ + 2]

\* DynQueueHandle(self.0.clone()): the Handle of a consume step.
handle_clone(c) == [strong_count EXCEPT ![c] = @ + 1]

\* write() and read() return once no other guard is out; a SegQueue has no
\* lock.  A call that cannot acquire does not return.
acquires(c) == kind = "SegQueue" \/ lock[c] = "free"

\* A call whose guard is still alive after the call's statement.
guard_kept(c) ==
    IF kind = "SegQueue" THEN lock ELSE [lock EXCEPT ![c] = "write"]

\* self.write().unwrap().push(v) and the like: the guard is a temporary of
\* the call's expression and is dropped before the call returns.
guard_dropped(c) == [lock EXCEPT ![c] = "free"]

\* A panic while a write guard is alive: the guard is dropped by the unwinding
\* and the RwLock is poisoned.
guard_poisoned(c) == [lock EXCEPT ![c] = "poisoned"]

\* into_dyn_queue on the input.  Handles that run on other threads multiply
\* the interleavings: with them the doc rule and one item less are explored.
Init ==
    /\ kind \in Kinds
    /\ policy \in Policies
    /\ rule \in IF policy = "thread" THEN {"doc"} ELSE Rules
    /\ never_full \in BOOLEAN
    /\ limit \in IF never_full THEN {0} ELSE 0..MaxLimit
    /\ input \in SeqsUpTo(InputItems,
                          IF policy = "thread" THEN MaxInit - 1 ELSE MaxInit)
    /\ ncores = 1
    /\ queue = [c \in Cores |-> IF c = 1 THEN input ELSE <<>>]
    /\ strong_count = [c \in Cores |-> IF c = 1 THEN 1 ELSE 0]
    /\ pc = [c \in Cores |-> IF c = 1 THEN "ready" ELSE "none"]
    /\ cur = [c \in Cores |-> 0]
    /\ todo = [c \in Cores |-> <<>>]
    /\ delivered = [c \in Cores |-> <<>>]
    /\ enqueued = EmptyBag
    /\ STALE_HANDLE = 0
    /\ threads = EmptyBag
    /\ size = 0
    /\ lock = [c \in Cores |-> "free"]
    /\ call = [t \in Callers |-> Idle]
    /\ popped = EmptyBag
    /\ moved = EmptyBag
    /\ nops = 0

\* A split that also divides a queue of one item.
split_short(p) ==
    /\ pc[p] = "ready"
    /\ acquires(p)
    /\ lock' = guard_dropped(p)
    /\ LET L == len(queue[p])
           n == ncores + 1
       IN  IF L >= 1
           THEN /\ ncores < MaxProducers
                /\ queue' = [queue EXCEPT
                       ![p] = split_off_rest(kind, queue[p], L \div 2),
                       ![n] = split_off_new(kind, queue[p], L \div 2)]
                /\ strong_count' = [strong_count EXCEPT ![n] = 1]
                /\ pc' = [pc EXCEPT ![n] = "ready"]
                /\ ncores' = n
           ELSE UNCHANGED <<queue, strong_count, pc, ncores>>
    /\ UNCHANGED <<params, cur, todo, delivered, enqueued, STALE_HANDLE,
                   threads>>

\* DynQueue::split.  The Producer is taken by value, no Handle of its core
\* exists before its fold, so nothing runs between len() and split_off().
split(p) ==
    /\ pc[p] = "ready"
    /\ acquires(p)
    /\ lock' = guard_dropped(p)
    /\ LET L == len(queue[p])
           n == ncores + 1
       IN  IF L >= 2
           THEN /\ ncores < MaxProducers
                /\ queue' = [queue EXCEPT
                       ![p] = split_off_rest(kind, queue[p], L \div 2),
                       ![n] = split_off_new(kind, queue[p], L \div 2)]
                /\ strong_count' = [strong_count EXCEPT ![n] = 1]
                /\ pc' = [pc EXCEPT ![n] = "ready"]
                /\ ncores' = n
           ELSE UNCHANGED <<queue, strong_count, pc, ncores>>
    /\ UNCHANGED <<params, cur, todo, delivered, enqueued, STALE_HANDLE,
                   threads>>

\* fold_with, top of the loop: pop; on Some(v) clone the Arc into a Handle and
\* enter folder.consume, on None go to the assertion.
fold_pop(p) ==
    /\ pc[p] \in {"ready", "loop"}
    /\ acquires(p)
    /\ lock' = guard_dropped(p)
    /\ IF len(queue[p]) > 0
       THEN /\ cur' = [cur EXCEPT ![p] = pop_item(kind, queue[p])]
            /\ queue' = [queue EXCEPT ![p] = pop_rest(kind, queue[p])]
            /\ strong_count' = handle_clone(p)
            /\ todo' = [todo EXCEPT ![p] =
                           IF policy = "thread" THEN <<>>
                           ELSE Calls(rule, pop_item(kind, queue[p]))]
            /\ pc' = [pc EXCEPT ![p] = "consume"]
       ELSE /\ pc' = [pc EXCEPT ![p] = "assert"]
            /\ UNCHANGED <<cur, queue, strong_count, todo>>
    /\ UNCHANGED <<params, ncores, delivered, enqueued, STALE_HANDLE, threads>>

\* An enqueue that pushes to the root queue, whatever core the Handle is of.
enqueue_to_root(p) ==
    /\ pc[p] = "consume"
    /\ todo[p] # <<>>
    /\ acquires(1)
    /\ lock' = guard_dropped(1)
    /\ queue' = [queue EXCEPT ![1] = push(kind, @, Head(todo[p]))]
    /\ enqueued' = enqueued (+) SetToBag({Head(todo[p])})
    /\ todo' = [todo EXCEPT ![p] = Tail(@)]
    /\ UNCHANGED <<params, ncores, strong_count, pc, cur, delivered,
                   STALE_HANDLE, threads>>

\* DynQueueHandle::enqueue, called by the callback on the folding thread.
enqueue(p) ==
    /\ pc[p] = "consume"
    /\ todo[p] # <<>>
    /\ acquires(p)
    /\ lock' = guard_dropped(p)
    /\ queue' = [queue EXCEPT ![p] = push(kind, @, Head(todo[p]))]
    /\ enqueued' = enqueued (+) SetToBag({Head(todo[p])})
    /\ todo' = [todo EXCEPT ![p] = Tail(@)]
    /\ UNCHANGED <<params, ncores, strong_count, pc, cur, delivered,
                   STALE_HANDLE, threads>>

\* What the end of the callback does to the reference counts: the handle is
\* dropped ("sync", the map closure of the first doc example), replaces the
\* one in STALE_HANDLE, which is dropped ("leak", the second doc example), or
\* moves to another thread ("thread").  STALE_HANDLE.replace is one step
\* here: the slot stands for any store that outlives the callback, and the
\* unsynchronised static of the example is not part of the library.
count_after_callback(p) ==
    CASE policy = "sync" -> [strong_count EXCEPT ![p] = @ - 1]
      [] policy = "leak" ->
            IF STALE_HANDLE = 0 THEN strong_count
            ELSE [strong_count EXCEPT ![STALE_HANDLE] = @ - 1]
      [] OTHER -> strong_count

\* The callback returns, folder.consume takes the item, and folder.full()
\* decides between the next turn of the loop and the break, after which
\* fold_with returns and self is dropped.
consume(p) ==
    /\ pc[p] = "consume"
    /\ todo[p] = <<>>
    /\ STALE_HANDLE' = IF policy = "leak" THEN p ELSE STALE_HANDLE
    /\ threads' = IF policy = "thread"
                  THEN threads (+) SetToBag({[core |-> p,
                                              todo |-> Calls(rule, cur[p])]})
                  ELSE threads
    /\ delivered' = [delivered EXCEPT ![p] = Append(@, cur[p])]
    /\ IF should_break(delivered'[p])
       THEN /\ pc' = [pc EXCEPT ![p] = "done_full"]
            /\ strong_count' = [count_after_callback(p) EXCEPT ![p] = @ - 1]
       ELSE /\ pc' = [pc EXCEPT ![p] = "loop"]
            /\ strong_count' = count_after_callback(p)
    /\ UNCHANGED <<params, ncores, queue, cur, todo, enqueued, lock>>

\* assert_eq!(Arc::strong_count(&self.0), 1, "Stale Handle"); break.
assert_sole(p) ==
    /\ pc[p] = "assert"
    /\ pc' = [pc EXCEPT ![p] =
                 IF sole_reference(p) THEN "done_empty" ELSE "panicked"]
    /\ strong_count' = [strong_count EXCEPT ![p] = @ - 1]
    /\ UNCHANGED <<params, ncores, queue, cur, todo, delivered, enqueued,
                   STALE_HANDLE, threads, lock>>

\* A thread that was given a handle calls enqueue.
thread_enqueue(h) ==
    /\ h.todo # <<>>
    /\ acquires(h.core)
    /\ lock' = guard_dropped(h.core)
    /\ queue' = [queue EXCEPT ![h.core] = push(kind, @, Head(h.todo))]
    /\ enqueued' = enqueued (+) SetToBag({Head(h.todo)})
    /\ threads' = (threads (-) SetToBag({h}))
                     (+) SetToBag({[h EXCEPT !.todo = Tail(@)]})
    /\ UNCHANGED <<params, ncores, strong_count, pc, cur, todo, delivered,
                   STALE_HANDLE>>

\* A thread that was given a handle drops it.
thread_release(h) ==
    /\ h.todo = <<>>
    /\ strong_count' = [strong_count EXCEPT ![h.core] = @ - 1]
    /\ threads' = threads (-) SetToBag({h})
    /\ UNCHANGED <<params, ncores, queue, pc, cur, todo, delivered, enqueued,
                   STALE_HANDLE, lock>>

Next ==
    \/ \E p \in Cores : split(p)
    \/ \E p \in Cores : fold_pop(p)
    \/ \E p \in Cores : enqueue(p)
    \/ \E p \in Cores : consume(p)
    \/ \E p \in Cores : assert_sole(p)
    \/ \E h \in BagToSet(threads) : thread_enqueue(h)
    \/ \E h \in BagToSet(threads) : thread_release(h)

Spec == Init /\ [][Next]_vars

\* Rayon runs every Producer it holds: a fold that can take a step takes it.
fold_step(p) == fold_pop(p) \/ enqueue(p) \/ consume(p) \/ assert_sole(p)

\* The use the crate documents and tests: every Handle is dropped inside its
\* callback and the result is collected, so that no folder is ever full.
SyncInit == Init /\ policy = "sync" /\ never_full

SyncNext == \E p \in Cores : split(p) \/ fold_step(p)

FairSpec ==
    SyncInit /\ [][SyncNext]_vars /\ \A p \in Cores : WF_vars(fold_step(p))

\* ------------------------------------------------ the tests' scenario

\* tests.rs get_input.
get_input ==
    <<1, 2, 3, 4, 5, 6, 7, 8, 9, 10, 11, 12, 13, 14, 15, 16, 17, 18,
      19, 20, 21>>

\* tests.rs get_expected: the sorted result the tests compare with.
get_expected ==
    <<1, 2, 3, 4, 5, 5, 5, 5, 5, 5, 5, 5, 5, 5, 5, 5, 5, 5, 5, 5, 5,
      5, 5, 5, 5, 5, 5, 5, 6, 7, 8, 9, 10, 11, 11, 11, 11, 11, 11, 11,
      11, 11, 11, 11, 11, 11, 11, 11, 11, 11, 11, 11, 11, 11, 11, 11,
      12, 13, 14, 15, 16, 17, 17, 17, 17, 17, 17, 17, 17, 17, 17, 17,
      17, 17, 17, 17, 17, 17, 17, 17, 17, 17, 17, 17, 17, 18, 19, 20,
      21>>

\* DynQueue::new(get_input()).into_par_iter().map(handle_queue) on each of
\* the three backing queues, collected: no folder is ever full.
TestInit ==
    /\ kind \in Kinds
    /\ policy = "sync"
    /\ rule = "test"
    /\ never_full = TRUE
    /\ limit = 0
    /\ input = get_input
    /\ ncores = 1
    /\ queue = [c \in Cores |-> IF c = 1 THEN input ELSE <<>>]
    /\ strong_count = [c \in Cores |-> IF c = 1 THEN 1 ELSE 0]
    /\ pc = [c \in Cores |-> IF c = 1 THEN "ready" ELSE "none"]
    /\ cur = [c \in Cores |-> 0]
    /\ todo = [c \in Cores |-> <<>>]
    /\ delivered = [c \in Cores |-> <<>>]
    /\ enqueued = EmptyBag
    /\ STALE_HANDLE = 0
    /\ threads = EmptyBag
    /\ size = 0
    /\ lock = [c \in Cores |-> "free"]
    /\ call = [t \in Callers |-> Idle]
    /\ popped = EmptyBag
    /\ moved = EmptyBag
    /\ nops = 0

TestSpec == TestInit /\ [][SyncNext]_vars

\* ------------------------------------------- a Queue<T> used on its own

\* A queue of kind U holding the input, before a call split_off(size).
QInit ==
    /\ kind \in Kinds
    /\ policy = "sync"
    /\ rule = "doc"
    /\ never_full = TRUE
    /\ limit = 0
    /\ input \in SeqsUpTo(InputItems, MaxInit)
    /\ size \in 0..MaxSize
    /\ ncores = 1
    /\ queue = [c \in Cores |-> IF c = 1 THEN input ELSE <<>>]
    /\ strong_count = [c \in Cores |-> 0]
    /\ pc = [c \in Cores |-> IF c = 1 THEN "queue" ELSE "none"]
    /\ cur = [c \in Cores |-> 0]
    /\ todo = [c \in Cores |-> <<>>]
    /\ delivered = [c \in Cores |-> <<>>]
    /\ enqueued = EmptyBag
    /\ STALE_HANDLE = 0
    /\ threads = EmptyBag
    /\ lock = [c \in Cores |-> "free"]
    /\ call = [t \in Callers |-> Idle]
    /\ popped = EmptyBag
    /\ moved = EmptyBag
    /\ nops = 0

\* Queue::split_off(size) on queue 1; the returned queue is queue 2.
split_off ==
    /\ pc[1] = "queue"
    /\ acquires(1)
    /\ IF split_off_faults(kind, queue[1], size)
       THEN /\ pc' = [pc EXCEPT ![1] = "panicked"]
            /\ lock' = guard_poisoned(1)
            /\ UNCHANGED <<queue, ncores>>
       ELSE /\ pc' = [pc EXCEPT ![1] = "split_off", ![2] = "queue"]
            /\ lock' = guard_dropped(1)
            /\ queue' = [queue EXCEPT
                   ![1] = split_off_rest(kind, queue[1], size),
                   ![2] = split_off_new(kind, queue[1], size)]
            /\ ncores' = 2
    /\ UNCHANGED <<params, strong_count, cur, todo, delivered, enqueued,
                   STALE_HANDLE, threads>>

QNext == split_off

QSpec == QInit /\ [][QNext]_vars

\* --------------------------------- a Queue<T> called from several threads

\* The same queue before any call; the threads of Callers then call push(PushItem),
\* pop(), len() and split_off(size) on it in any order, MaxOps calls in all.
ConcInit == QInit

config == <<kind, policy, rule, never_full, limit, input, size>>

fold_state == <<ncores, strong_count, pc, cur, todo, delivered, STALE_HANDLE,
                threads>>

Methods == {"push", "pop", "len", "split_off"}

Locked(t) == call[t].op \in Methods /\ kind # "SegQueue"

\* RwLock<Vec<T>> and RwLock<VecDeque<T>>: self.write() or self.read().
\* unwrap() panics on a poisoned lock; otherwise the call waits until it can
\* have the guard, len() sharing it with other readers.
rw_acquire(t, m) ==
    /\ kind # "SegQueue"
    /\ call[t] = Idle
    /\ nops < MaxOps
    /\ nops' = nops + 1
    /\ IF lock[1] = "poisoned"
       THEN /\ call' = [call EXCEPT ![t] = [Idle EXCEPT !.op = "panicked"]]
            /\ UNCHANGED lock
       ELSE /\ lock[1] = "free" \/ (m = "len" /\ lock[1] = "read")
            /\ call' = [call EXCEPT ![t] = [Idle EXCEPT !.op = m]]
            /\ lock' = [lock EXCEPT ![1] = IF m = "len" THEN "read" ELSE "write"]
    /\ UNCHANGED <<config, fold_state, queue, enqueued, popped, moved>>

\* The method of the std collection under the guard, and the guard's drop.
rw_call(t) ==
    /\ Locked(t)
    /\ LET m == call[t].op
           fault == m = "split_off" /\ split_off_faults(kind, queue[1], size)
       IN  /\ call' = [call EXCEPT ![t] =
                          IF fault THEN [Idle EXCEPT !.op = "panicked"] ELSE Idle]
           /\ lock' = IF fault THEN guard_poisoned(1)
                      ELSE IF \E u \in Callers \ {t} : call[u].op = "len"
                      THEN lock
                      ELSE guard_dropped(1)
           /\ queue' = [queue EXCEPT ![1] =
                 CASE m = "push" -> push(kind, @, PushItem)
                   [] m = "pop" /\ len(@) > 0 -> pop_rest(kind, @)
                   [] m = "split_off" /\ ~fault -> split_off_rest(kind, @, size)
                   [] OTHER -> @]
           /\ enqueued' = IF m = "push" THEN enqueued (+) SetToBag({PushItem})
                          ELSE enqueued
           /\ popped' = IF m = "pop" /\ len(queue[1]) > 0
                        THEN popped (+) SetToBag({pop_item(kind, queue[1])})
                        ELSE popped
           /\ moved' = IF m = "split_off" /\ ~fault
                       THEN moved (+) SeqToBag(split_off_new(kind, queue[1], size))
                       ELSE moved
    /\ UNCHANGED <<config, fold_state, nops>>

\* SegQueue::push, SegQueue::pop and SegQueue::len: one step each.
seg_call(t, m) ==
    /\ kind = "SegQueue"
    /\ m # "split_off"
    /\ call[t] = Idle
    /\ nops < MaxOps
    /\ nops' = nops + 1
    /\ queue' = [queue EXCEPT ![1] =
          CASE m = "push" -> push(kind, @, PushItem)
            [] m = "pop" /\ len(@) > 0 -> pop_rest(kind, @)
            [] OTHER -> @]
    /\ enqueued' = IF m = "push" THEN enqueued (+) SetToBag({PushItem})
                   ELSE enqueued
    /\ popped' = IF m = "pop" /\ len(queue[1]) > 0
                 THEN popped (+) SetToBag({pop_item(kind, queue[1])})
                 ELSE popped
    /\ UNCHANGED <<config, fold_state, lock, call, moved>>

\* SegQueue split_off: let q = SegQueue::new(), then size turns of the loop.
seg_split_off(t) ==
    /\ kind = "SegQueue"
    /\ call[t] = Idle
    /\ nops < MaxOps
    /\ nops' = nops + 1
    /\ call' = [call EXCEPT ![t] =
                   [Idle EXCEPT !.op = "split_off", !.left = size]]
    /\ UNCHANGED <<config, fold_state, queue, lock, enqueued, popped, moved>>

\* One turn: filter_map(|_| Queue::pop(self)); a None is skipped.
seg_split_off_pop(t) ==
    /\ kind = "SegQueue"
    /\ call[t].op = "split_off"
    /\ call[t].item = 0
    /\ call[t].left > 0
    /\ IF len(queue[1]) > 0
       THEN /\ call' = [call EXCEPT ![t].left = @ - 1,
                                    ![t].item = pop_item(kind, queue[1])]
            /\ queue' = [queue EXCEPT ![1] = pop_rest(kind, @)]
       ELSE /\ call' = [call EXCEPT ![t].left = @ - 1]
            /\ UNCHANGED queue
    /\ UNCHANGED <<config, fold_state, lock, enqueued, popped, moved, nops>>

\* for_each(|ele| q.push(ele)).
seg_split_off_push(t) ==
    /\ kind = "SegQueue"
    /\ call[t].op = "split_off"
    /\ call[t].item # 0
    /\ call' = [call EXCEPT ![t].out = push(kind, @, call[t].item),
                            ![t].item = 0]
    /\ UNCHANGED <<config, fold_state, queue, lock, enqueued, popped, moved,
                   nops>>

\* The loop is over: q is returned.
seg_split_off_return(t) ==
    /\ kind = "SegQueue"
    /\ call[t].op = "split_off"
    /\ call[t].item = 0
    /\ call[t].left = 0
    /\ moved' = moved (+) SeqToBag(call[t].out)
    /\ call' = [call EXCEPT ![t] = Idle]
    /\ UNCHANGED <<config, fold_state, queue, lock, enqueued, popped, nops>>

ConcNext ==
    \/ \E t \in Callers, m \in Methods : rw_acquire(t, m)
    \/ \E t \in Callers : rw_call(t)
    \/ \E t \in Callers, m \in Methods : seg_call(t, m)
    \/ \E t \in Callers : seg_split_off(t)
    \/ \E t \in Callers : seg_split_off_pop(t)
    \/ \E t \in Callers : seg_split_off_push(t)
    \/ \E t \in Callers : seg_split_off_return(t)

ConcSpec == ConcInit /\ [][ConcNext]_vars

\* ---------------------------------------------------------- properties

Created == 1..ncores

\* The live Handles of core c: the one of a running consume step, the one in
\* STALE_HANDLE, those held by other threads.
ThreadHandles(c) ==
    BagCardinality([h \in {x \in BagToSet(threads) : x.core = c}
                      |-> CopiesIn(h, threads)])

Handles(c) ==
    (IF pc[c] = "consume" THEN 1 ELSE 0)
    + (IF STALE_HANDLE = c THEN 1 ELSE 0)
    + ThreadHandles(c)

Returned(p) == pc[p] \in {"done_empty", "done_full"}

AllReturned == \A p \in Created : Returned(p)

AllTerminated == \A p \in Created : Returned(p) \/ pc[p] = "panicked"

RECURSIVE DeliveredBag(_)
DeliveredBag(n) ==
    IF n = 0 THEN EmptyBag
    ELSE DeliveredBag(n - 1) (+) SeqToBag(delivered[n])

IsPrefix(s, t) == Len(s) <= Len(t) /\ SubSeq(t, 1, Len(s)) = s

\* C1. Conservation: with every Handle released inside its callback and a
\* folder that is never full, once every Producer has returned the items
\* delivered are, as a multiset, the initial items plus the enqueued ones.
C1_Conservation ==
    (policy = "sync" /\ never_full /\ AllReturned)
        => DeliveredBag(ncores) = SeqToBag(input) (+) enqueued

C1_Witness ==
    /\ policy = "sync" /\ never_full /\ AllReturned
    /\ ncores = 2 /\ rule = "test" /\ kind = "Vec"
    /\ BagCardinality(enqueued) >= 3

\* C2. Termination and full drain: with a finite enqueue rule, Handles
\* released inside the callback and a folder that is never full, every
\* Producer eventually returns from fold_with with its queue empty.
AllDrained == \A p \in Created : pc[p] = "done_empty" /\ queue[p] = <<>>

C2_Termination == (policy = "sync" /\ never_full) ~> AllDrained

C2_Witness ==
    /\ policy = "sync" /\ never_full /\ AllDrained
    /\ ncores = 2 /\ BagCardinality(enqueued) >= 3

\* C3. Stale-handle fault: when every callback leaks its Handle into
\* STALE_HANDLE and the folder is never full, a computation that delivered an
\* item ends with a Producer in the "Stale Handle" fault, and no Producer
\* whose Handle is in the slot has returned through the empty branch.
C3_StaleHandleFault ==
    (policy = "leak" /\ never_full) =>
        /\ (AllTerminated /\ input # <<>>)
               => \E p \in Created : pc[p] = "panicked"
        /\ \A p \in Created : pc[p] = "done_empty" => STALE_HANDLE # p

C3_Witness ==
    /\ policy = "leak" /\ never_full /\ AllTerminated
    /\ ncores = 2 /\ pc[1] = "done_empty" /\ pc[2] = "panicked"
    /\ delivered[1] # <<>>

\* C4. No silently dropped work under concurrent Handle use: a Producer that
\* returns through the empty branch leaves no item in its queue.
C4_NoDroppedWork == \A p \in Created : pc[p] = "done_empty" => queue[p] = <<>>

\* C5 as claimed: on every path by which fold_with returns normally no Handle
\* of the Producer's core is outstanding.
C5_NoHandleAtReturn == \A p \in Created : Returned(p) => Handles(p) = 0

\* C5, amended. The reference count is checked on the empty branch only:
\* there fold_with returns normally exactly when no Handle of its core is
\* outstanding, and ends in the "Stale Handle" fault otherwise.
C5_EmptyBranchCheck ==
    [][\A p \in Cores :
          (pc[p] = "assert" /\ pc'[p] # "assert") =>
              pc'[p] = (IF Handles(p) = 0 THEN "done_empty" ELSE "panicked")]_vars

C5_Witness ==
    \E p \in Created :
        /\ pc[p] = "panicked" /\ policy = "thread" /\ ThreadHandles(p) > 0
        /\ delivered[p] # <<>>

\* C6. Early termination after consume: a fold whose folder reports full
\* after the N-th consumed item (N >= 1) has delivered exactly N items; a
\* single Producer delivers min(N, items available) items, and what it did
\* not deliver is still in its queue.
C6_EarlyTermination ==
    (~never_full /\ limit >= 1) =>
        /\ \A p \in Created :
               pc[p] = "done_full" => Len(delivered[p]) = limit
        /\ (policy = "sync" /\ ncores = 1 /\ Returned(1)) =>
               /\ Len(delivered[1]) =
                      Min(limit, Len(input) + BagCardinality(enqueued))
               /\ SeqToBag(delivered[1]) (+) SeqToBag(queue[1])
                      = SeqToBag(input) (+) enqueued

C6_Witness ==
    /\ policy = "sync" /\ ncores = 1 /\ pc[1] = "done_full"
    /\ ~never_full /\ limit = 2 /\ Len(queue[1]) >= 2
    /\ enqueued # EmptyBag

\* A step in which Producer p takes an item from its queue.
Pops(p) == pc[p] # "consume" /\ pc'[p] = "consume"

\* C7 as claimed: whenever the folder reports full, also when it is full
\* before the first pop, the Producer pops and delivers nothing more.
C7_NoPopWhenFull ==
    [][\A p \in Cores :
          full(delivered[p]) =>
              ~Pops(p) /\ delivered'[p] = delivered[p]]_vars

\* C7, amended. The folder is asked after a consume step only.  Once it has
\* reported full there, the Producer pops nothing, delivers nothing and
\* removes nothing from its queue; a folder that is full when fold_with is
\* entered still has one item popped and delivered to it.
C7_NoPopAfterFullConsume ==
    /\ [][\A p \in Cores :
             (full(delivered[p]) /\ delivered[p] # <<>>) =>
                 /\ ~Pops(p)
                 /\ delivered'[p] = delivered[p]
                 /\ IsPrefix(queue[p], queue'[p])]_vars
    /\ [](\A p \in Created :
             (~never_full /\ limit = 0 /\ Returned(p) /\ input # <<>>)
                 => (pc[p] = "done_full" /\ Len(delivered[p]) = 1))

C7_Witness ==
    \E p \in Created :
        /\ ~never_full /\ limit = 0 /\ pc[p] = "done_full"
        /\ Len(delivered[p]) = 1 /\ queue[p] # <<>>

\* C8. Split size: split() on a Producer whose queue holds L >= 2 items
\* gives the new Producer floor(L/2) items and leaves the original the
\* other L - floor(L/2).
C8_SplitSize ==
    [][\A p \in Cores :
          (pc[p] = "ready" /\ ncores' = ncores + 1 /\ queue'[p] # queue[p]) =>
              /\ Len(queue'[ncores']) = Len(queue[p]) \div 2
              /\ Len(queue'[p]) = Len(queue[p]) - Len(queue[p]) \div 2]_vars

\* C9. split_off partition: split_off(n) on a queue of length L never
\* faults, returns min(n, L) items and leaves L - min(n, L), and the two
\* together are the original contents.
C9_SplitOffPartition ==
    /\ pc[1] # "panicked"
    /\ pc[1] = "split_off" =>
          /\ Len(queue[2]) = Min(size, Len(input))
          /\ Len(queue[1]) = Len(input) - Min(size, Len(input))
          /\ SeqToBag(queue[1]) (+) SeqToBag(queue[2]) = SeqToBag(input)

\* C10. No resurrection: once a pop on a core has returned empty with no
\* Handle of the core outstanding, the queue stays empty and no Handle of
\* the core appears, so every later pop returns empty too.
AfterEmptyPop(c) == pc[c] \in {"assert", "done_empty", "panicked"}

C10_NoResurrection ==
    [][\A c \in Cores :
          (AfterEmptyPop(c) /\ queue[c] = <<>> /\ Handles(c) = 0) =>
              (queue'[c] = <<>> /\ Handles(c)' = 0)]_vars

C10_Witness ==
    \E c \in Created :
        /\ pc[c] = "assert" /\ queue[c] = <<>> /\ Handles(c) = 0
        /\ policy = "thread" /\ enqueued # EmptyBag
        /\ \E d \in Created : d # c /\ ThreadHandles(d) > 0

\* C11. No lock across consumer code: between any two steps no queue lock
\* is held, in particular not while folder.consume runs; an enqueue of the
\* running callback and of any thread holding a Handle can complete; and a
\* Producer that has not returned and a thread that holds a Handle can
\* always take its next step.
Running(p) == pc[p] \in {"ready", "loop", "consume", "assert"}

C11_NoLockAcrossConsumer ==
    /\ \A c \in Cores : lock[c] = "free"
    /\ \A p \in Created :
          /\ (pc[p] = "consume" /\ todo[p] # <<>>) => ENABLED enqueue(p)
          /\ Running(p) => ENABLED fold_step(p)
    /\ \A h \in BagToSet(threads) :
          /\ h.todo # <<>> => ENABLED thread_enqueue(h)
          /\ ENABLED (thread_enqueue(h) \/ thread_release(h))

C11_Witness ==
    \E p \in Created :
        /\ kind = "Vec" /\ policy = "sync" /\ rule = "test"
        /\ pc[p] = "consume" /\ cur[p] = 11 /\ todo[p] = <<17>>
        /\ \E d \in Created : d # p /\ pc[d] = "consume"

\* C12. Queue-level atomicity: whatever the interleaving of concurrent push,
\* pop, len and split_off calls on one queue, at every point the items in the
\* queue, those returned by pop and those moved out by split_off (in a
\* returned queue, in the queue a running split_off is filling, or in its
\* hand) are, as a multiset, the initial contents plus the items pushed.
RECURSIVE InSplitOff(_)
InSplitOff(n) ==
    IF n = 0 THEN EmptyBag
    ELSE InSplitOff(n - 1) (+) SeqToBag(call[n].out)
         (+) (IF call[n].item = 0 THEN EmptyBag ELSE SetToBag({call[n].item}))

C12_QueueAtomicity ==
    SeqToBag(queue[1]) (+) popped (+) moved (+) InSplitOff(Cardinality(Callers))
        = SeqToBag(input) (+) enqueued

C12_Witness ==
    /\ kind = "SegQueue"
    /\ call[1].op = "split_off" /\ call[1].item # 0 /\ call[1].out # <<>>
    /\ popped # EmptyBag /\ enqueued # EmptyBag

\* C13. Scenario C result: with the initial items 1..21 and the tests'
\* callback, once every Producer has returned the delivered items are, as a
\* multiset, the tests' expected list, which has 89 entries.
C13_ScenarioC ==
    AllReturned =>
        /\ DeliveredBag(ncores) = SeqToBag(get_expected)
        /\ BagCardinality(DeliveredBag(ncores)) = 89

\* C13 as stated: the delivered multiset has exactly 87 items.
C13_ScenarioC87 ==
    AllReturned =>
        /\ DeliveredBag(ncores) = SeqToBag(get_expected)
        /\ BagCardinality(DeliveredBag(ncores)) = 87

C13_Witness ==
    /\ input = get_input /\ AllReturned /\ ncores = 2
    /\ delivered[1] # <<>> /\ delivered[2] # <<>>

\* C14. Split of a short queue: a Producer that has not begun its fold and
\* whose queue holds 0 or 1 items keeps its queue as it is, and a new core
\* is only ever created by dividing the queue of such a Producer that holds
\* at least 2 items, after which both the original and the new queue hold at
\* least one item.
C14_ShortSplit ==
    [][/\ \A p \in Created :
             (pc[p] = "ready" /\ pc'[p] = "ready" /\ Len(queue[p]) < 2)
                 => queue'[p] = queue[p]
       /\ ncores' # ncores =>
             /\ ncores' = ncores + 1
             /\ \E p \in Created :
                   /\ pc[p] = "ready" /\ Len(queue[p]) >= 2
                   /\ Len(queue'[p]) >= 1
                   /\ Len(queue'[ncores']) >= 1
                   /\ \A c \in Created \ {p} : queue'[c] = queue[c]]_vars

C14_Witness ==
    /\ ncores = 2 /\ pc[1] = "ready" /\ pc[2] = "ready"
    /\ Len(input) = 3 /\ Len(queue[1]) = 1 /\ Len(queue[2]) = 2

\* The order in which one fold delivers the closure of q under the callback
\* when the newest item is taken first, and when the oldest is.
RECURSIVE LifoOrder(_)
LifoOrder(q) ==
    IF q = <<>> THEN <<>>
    ELSE LET v == q[Len(q)]
         IN  <<v>> \o LifoOrder(SubSeq(q, 1, Len(q) - 1) \o Calls(rule, v))

RECURSIVE FifoOrder(_)
FifoOrder(q) ==
    IF q = <<>> THEN <<>>
    ELSE <<Head(q)>> \o FifoOrder(Tail(q) \o Calls(rule, Head(q)))

\* C15. Pop discipline within one fold, the callback enqueuing on the folding
\* thread.  Vec: the item delivered after a callback that enqueued is the one
\* it enqueued last, and a Producer that was never split delivers its input
\* depth-first.  VecDeque: a pop takes the front item, an enqueued item goes
\* behind every item already in the queue, and a Producer that was never
\* split delivers breadth-first, in the order of entry.  A pop on an empty
\* queue sends the fold to its empty branch and changes nothing else.
C15_PopDiscipline ==
    /\ []((ncores = 1 /\ policy # "thread") =>
            /\ kind = "Vec" => IsPrefix(delivered[1], LifoOrder(input))
            /\ kind = "VecDeque" => IsPrefix(delivered[1], FifoOrder(input)))
    /\ [][\A p \in Created :
            /\ (/\ Pops(p) /\ kind = "Vec" /\ policy # "thread"
                /\ delivered[p] # <<>>
                /\ Calls(rule, delivered[p][Len(delivered[p])]) # <<>>)
                 => LET e == Calls(rule, delivered[p][Len(delivered[p])])
                    IN  cur'[p] = e[Len(e)]
            /\ (Pops(p) /\ kind = "VecDeque")
                 => cur'[p] = Head(queue[p]) /\ queue'[p] = Tail(queue[p])
            /\ (kind = "VecDeque" /\ Len(queue'[p]) > Len(queue[p]))
                 => SubSeq(queue'[p], 1, Len(queue[p])) = queue[p]
            /\ (pc[p] \in {"ready", "loop"} /\ queue[p] = <<>> /\ pc'[p] # pc[p])
                 => /\ pc'[p] = "assert"
                    /\ UNCHANGED <<queue, cur, delivered, strong_count>>]_vars

C15_Witness ==
    /\ kind = "Vec" /\ policy = "sync" /\ rule = "test" /\ ncores = 1
    /\ input = <<2, 1>> /\ delivered[1] = <<1, 2, 11, 17, 5>>
    /\ pc[1] = "done_empty"

\* C16. No false fault: when every Handle is released before the consume
\* step that received it returns, no Producer ends in the "Stale Handle"
\* fault, and a Producer that has observed its queue empty finds the
\* reference count of its core at exactly 1, whatever the interleaving of
\* split, fold_with and enqueue across the Producers.
C16_NoFalseFault ==
    policy = "sync" =>
        \A p \in Created :
            /\ pc[p] # "panicked"
            /\ pc[p] = "assert" => strong_count[p] = 1

C16_Witness ==
    /\ policy = "sync" /\ ncores = 2 /\ enqueued # EmptyBag
    /\ pc[1] = "assert" /\ strong_count[1] = 1
    /\ pc[2] = "consume" /\ todo[2] # <<>>

\* The enqueue calls made by the callbacks of the items d.
RECURSIVE CallsOf(_)
CallsOf(d) ==
    IF d = <<>> THEN EmptyBag
    ELSE SeqToBag(Calls(rule, Head(d))) (+) CallsOf(Tail(d))

\* Of the bag B, the items that no input holds: those came through a Handle.
EnqueuedOnly(B) == [x \in BagToSet(B) \ InputItems |-> CopiesIn(x, B)]

\* What the Handles created by the fold of core c have pushed so far: the
\* calls of the finished callbacks and of the running one, less those still
\* to be made.
RECURSIVE ThreadTodo(_)
ThreadTodo(H) ==
    IF H = {} THEN EmptyBag
    ELSE LET h == CHOOSE x \in H : TRUE
             B == SeqToBag(h.todo)
         IN  [x \in BagToSet(B) |-> CopiesIn(h, threads) * CopiesIn(x, B)]
                 (+) ThreadTodo(H \ {h})

PushedBy(c) ==
    (CallsOf(delivered[c])
        (+) (IF pc[c] = "consume" /\ policy # "thread"
             THEN SeqToBag(Calls(rule, cur[c])) ELSE EmptyBag))
    (-) (SeqToBag(todo[c])
            (+) ThreadTodo({h \in BagToSet(threads) : h.core = c}))

\* The items at core c: queued, in the running consume step, or delivered by
\* c's Producer.
ItemsAt(c) ==
    SeqToBag(queue[c]) (+) SeqToBag(delivered[c])
        (+) (IF pc[c] = "consume" THEN SetToBag({cur[c]}) ELSE EmptyBag)

\* C17. One Producer per QueueCore: a Producer that can still be split is the
\* only reference to its core and its queue holds no enqueued item, so split
\* never moves one; the enqueued items at a core (queued or delivered by its
\* Producer) are exactly those pushed through the Handles of that Producer's
\* fold; and an item leaves a queue only by the pop of the core's own
\* Producer or by a split before that Producer's fold.
C17_OneProducerPerCore ==
    /\ [](\A c \in Created :
            /\ EnqueuedOnly(ItemsAt(c)) = PushedBy(c)
            /\ pc[c] = "ready" =>
                  /\ strong_count[c] = 1 /\ Handles(c) = 0
                  /\ EnqueuedOnly(SeqToBag(queue[c])) = EmptyBag)
    /\ [][\A c \in Created :
            Len(queue'[c]) < Len(queue[c]) =>
                \/ pc[c] = "ready" /\ pc'[c] = "ready" /\ ncores' = ncores + 1
                \/ Pops(c) /\ Len(queue'[c]) = Len(queue[c]) - 1]_vars

C17_Witness ==
    /\ ncores = 2 /\ policy = "thread"
    /\ \E i \in DOMAIN delivered[1] : delivered[1][i] \notin InputItems
    /\ \E i \in DOMAIN delivered[2] : delivered[2][i] \notin InputItems
    /\ ThreadHandles(1) > 0 /\ ThreadHandles(2) > 0

\* C18. Reference-count accounting: the reference count of a core is 1 while
\* its Producer has not left fold_with (0 afterwards) plus the number of live
\* Handles of the core; split leaves the original core's count unchanged and
\* creates the new core with count 1; and a Handle comes into being only in a
\* step that pops an item, one per pop.
C18_RefCount ==
    /\ [](\A c \in Created :
            strong_count[c] = (IF Running(c) THEN 1 ELSE 0) + Handles(c))
    /\ [][/\ ncores' # ncores =>
                /\ strong_count'[ncores'] = 1
                /\ \A c \in Created : strong_count'[c] = strong_count[c]
          /\ \A c \in Created :
                /\ Handles(c)' > Handles(c) => Pops(c)
                /\ Pops(c) => /\ Handles(c)' = Handles(c) + 1
                              /\ strong_count'[c] = strong_count[c] + 1
                              /\ Len(queue'[c]) = Len(queue[c]) - 1]_vars

C18_Witness ==
    /\ ncores = 2 /\ policy = "thread"
    /\ pc[1] = "done_full" /\ strong_count[1] = 2
    /\ pc[2] = "consume" /\ strong_count[2] = 3

====
